---- MODULE Spec2Model ----
(***************************************************************************)
(* Model of src/src/App.jsx: the attendance dashboard.  The state is the   *)
(* React state of App (supervisor, workers, attendance, date), the state   *)
(* of AuthScreen (sel), the memoised autoAbsentList, the three records of  *)
(* localStorage, the exports in flight, the files and notifications they   *)
(* produced, and the host's calendar date.                                 *)
(*                                                                         *)
(* Calendar dates are integers (day numbers); the ISO text of a date is    *)
(* only ever used as a key and compared for equality.  The day on which    *)
(* the model starts is day 0.                                              *)
(***************************************************************************)
EXTENDS Integers, Sequences, FiniteSets, TLC

(* ---------------- bounds ---------------- *)
NumWorkers == 2     \* worker ids are 1..NumWorkers
PastDays   == 4     \* the date picker offers the days -PastDays..MaxTicks
MaxTicks   == 1     \* how many times midnight passes
MaxSteps   == 3     \* user actions per behaviour
MaxExports == 2     \* export runs started per behaviour

WorkerIds == 1..NumWorkers
Days      == (0 - PastDays)..MaxTicks
Status    == {"P", "A"}

(* ---------------- JavaScript values ---------------- *)
Null   == [t |-> "null"]
Val(v) == [t |-> "val", v |-> v]

Truthy(x) == x # Null                 \* `!supervisor`, line 159

EmptyObj == << >>                     \* {}

\* obj[k] || {}   (lines 103, 111, 120, 415)
GetOr(obj, k) == IF k \in DOMAIN obj THEN obj[k] ELSE EmptyObj

\* { ...obj, [k]: v }
Put(obj, k, v) == [x \in (DOMAIN obj) \cup {k} |-> IF x = k THEN v ELSE obj[x]]

(* ---------------- seed data ---------------- *)
DEFAULT_WORKERS == [i \in 1..NumWorkers |-> [id |-> i]]

SUPERVISORS == << [id |-> "S-1", name |-> "Site Supervisor A"],
                  [id |-> "S-2", name |-> "Site Supervisor B"] >>

SupervisorIds == {SUPERVISORS[i].id : i \in 1..Len(SUPERVISORS)}

\* SUPERVISORS.find((s) => s.id === sel), line 343
FindSupervisor(sel_) ==
    LET hits == {i \in 1..Len(SUPERVISORS) : SUPERVISORS[i].id = sel_}
    IN  SUPERVISORS[CHOOSE i \in hits : \A j \in hits : i <= j]

(* ---------------- localStorage ---------------- *)
LS_KEYS == {"attendance", "workers", "supervisor"}

\* The text held under a key: no item, the empty text, a text that is not
\* JSON, or the JSON text of a value.
NoItem    == [k |-> "none"]
EmptyText == [k |-> "empty"]
Garbage   == [k |-> "garbage"]

JSON_stringify(value) == [k |-> "json", v |-> value]
ParseThrows(raw)      == raw.k # "json"
JSON_parse(raw)       == raw.v

\* loadLS, lines 31-38: `raw ? JSON.parse(raw) : fallback`, fallback on a throw
loadLS(store, key, fallback) ==
    LET raw == store[key]
    IN  IF raw = NoItem \/ raw = EmptyText THEN fallback
        ELSE IF ParseThrows(raw) THEN fallback
        ELSE JSON_parse(raw)

\* A variant that stores the value's text form "[object Object]" instead
\* of its JSON: localStorage.setItem(key, value)
saveLS_NoStringify(store, key, value, ok) ==
    IF ok THEN [store EXCEPT ![key] = IF value = Null THEN JSON_stringify(Null) ELSE Garbage]
    ELSE store

\* saveLS, lines 40-42: setItem either stores the text or throws (ok = FALSE)
saveLS(store, key, value, ok) ==
    IF ok THEN [store EXCEPT ![key] = JSON_stringify(value)] ELSE store

(* ---------------- state ---------------- *)
VARIABLES
    pc,              \* "boot" before App is constructed, "run" afterwards
    localStorage,    \* key -> text
    supervisor,      \* useState, line 94
    workers,         \* useState, line 95
    attendance,      \* useState, line 96
    date,            \* useState, line 97: the selected date
    sel,             \* useState of AuthScreen, line 321
    autoAbsentList,  \* useMemo, line 157: the flagged list that is displayed
    crashed,         \* an uncaught error has unmounted the component tree
    today,           \* the host's calendar date
    inflight,        \* export runs awaiting html2canvas: the date each captured
    files,           \* the files saved by pdf.save, in order
    toasts,          \* notifications issued so far, by kind
    ev,              \* the operation that produced this state
    steps,           \* user actions so far
    started          \* export runs started so far

vars == << pc, localStorage, supervisor, workers, attendance, date, sel,
           autoAbsentList, crashed, today, inflight, files, toasts, ev,
           steps, started >>

\* op: the operation; w, s: the worker id and status of a mark; was: the
\* entry a mark overwrote ("-" when there was none)
Event(op, w, s) == [op |-> op, w |-> w, s |-> s, was |-> "-"]

(* ---------------- dates ---------------- *)
\* Both functions end in toISOString().slice(0, 10); dateOffset moves the
\* day of the month of the local time first.  The model takes the host's
\* local calendar and the ISO (UTC) calendar to be the same calendar, on
\* which the two agree: dateOffset(0) = getToday.
getToday == today                        \* line 29

dateOffset(delta) == today + delta       \* lines 424-428

(* ---------------- the absence rule, lines 412-422 ---------------- *)
\* A variant that takes a missing entry for a day on which the worker was
\* not absent: m[w.id] === "A"
EffectivelyAbsent_MarkedOnly(m, w) ==
    w.id \in DOMAIN m /\ m[w.id] = "A"

\* m[w.id] ? m[w.id] === "A" : true
EffectivelyAbsent(m, w) ==
    IF w.id \in DOMAIN m /\ m[w.id] \in Status THEN m[w.id] = "A" ELSE TRUE

RECURSIVE FlagLoop(_, _, _, _)
FlagLoop(dayMaps, ws, i, flagged) ==
    IF i > Len(ws) THEN flagged
    ELSE LET w         == ws[i]
             allAbsent == \A j \in 1..Len(dayMaps) : EffectivelyAbsent(dayMaps[j], w)
         IN  FlagLoop(dayMaps, ws, i + 1,
                      IF allAbsent THEN Append(flagged, w) ELSE flagged)

computeAutoAbsent(att, ws) ==
    LET offs    == << 1, 2, 3 >>
        days    == [j \in 1..Len(offs) |-> dateOffset(0 - offs[j])]
        dayMaps == [j \in 1..Len(days) |-> GetOr(att, days[j])]
    IN  FlagLoop(dayMaps, ws, 1, << >>)

(* ---------------- the updaters of setAttendance ---------------- *)
\* A variant that forgets the spread of the day's record:
\* copy[date] = { [w.id]: status }
handleMarkUpdate_NoSpread(prev, d, w, status) ==
    Put(prev, d, Put(EmptyObj, w.id, status))

\* lines 109-113
handleMarkUpdate(prev, d, w, status) ==
    Put(prev, d, Put(GetOr(prev, d), w.id, status))

\* A variant that fills in the unmarked workers only:
\* workers.forEach((w) => (day[w.id] = day[w.id] || status))
RECURSIVE ForEachSet_KeepMarked(_, _, _, _)
ForEachSet_KeepMarked(day, ws, i, status) ==
    IF i > Len(ws) THEN day
    ELSE ForEachSet_KeepMarked(
             IF ws[i].id \in DOMAIN day THEN day ELSE Put(day, ws[i].id, status),
             ws, i + 1, status)

\* workers.forEach((w) => (day[w.id] = status)), line 121
RECURSIVE ForEachSet(_, _, _, _)
ForEachSet(day, ws, i, status) ==
    IF i > Len(ws) THEN day
    ELSE ForEachSet(Put(day, ws[i].id, status), ws, i + 1, status)

\* lines 118-124
handleBulkUpdate(prev, d, ws, status) ==
    Put(prev, d, ForEachSet(GetOr(prev, d), ws, 1, status))

(* ---------------- rendering ---------------- *)
\* attendance[date] on null (line 103) and `for (const w of workers)` on
\* null (line 417, called from line 157) throw a TypeError during render.
RenderThrows(att, ws) == att = Null \/ ws = Null

\* A variant without the guard of line 159: the dashboard is rendered
\* whether or not a supervisor is set
MainView_NoGuard == pc = "run" /\ ~crashed

\* The logged-in view (lines 161-303) is on the page.
MainView == pc = "run" /\ ~crashed /\ Truthy(supervisor)

\* AuthScreen (line 159) is on the page.
AuthView == pc = "run" /\ ~crashed /\ ~Truthy(supervisor)

Toast(kind) == [toasts EXCEPT ![kind] = @ + 1]

FileName(d) == [prefix |-> "attendance_", date |-> d, ext |-> ".pdf"]   \* line 149

(* ---------------- construction of App, lines 94-101 and 157 ------------- *)
\* The three lazy initialisers read the store; the first render computes the
\* memo; on mount the three effects write workers, attendance and supervisor
\* back.  okW, okA, okS say which of the three writes succeed.
Boot(op, okW, okA, okS) ==
    LET sup0 == loadLS(localStorage, "supervisor", Null)
        ws0  == loadLS(localStorage, "workers", Val(DEFAULT_WORKERS))
        att0 == loadLS(localStorage, "attendance", Val(EmptyObj))
        st1  == saveLS(localStorage, "workers", ws0, okW)
        st2  == saveLS(st1, "attendance", att0, okA)
        st3  == saveLS(st2, "supervisor", sup0, okS)
    IN  /\ pc' = "run"
        /\ supervisor' = sup0
        /\ workers' = ws0
        /\ attendance' = att0
        /\ date' = getToday
        /\ sel' = SUPERVISORS[1].id
        /\ inflight' = << >>
        /\ ev' = Event(op, 0, "-")
        /\ IF RenderThrows(att0, ws0)
              THEN /\ crashed' = TRUE
                   /\ autoAbsentList' = << >>
                   /\ localStorage' = localStorage
              ELSE /\ crashed' = ~(okW /\ okA /\ okS)
                   /\ autoAbsentList' = computeAutoAbsent(att0.v, ws0.v)
                   /\ localStorage' = st3
        /\ UNCHANGED << today, files, toasts, started >>

Startup ==
    /\ pc = "boot"
    /\ \E okW, okA, okS \in BOOLEAN : Boot("startup", okW, okA, okS)
    /\ UNCHANGED steps

\* The page is reloaded: the running instance and its pending promises are
\* dropped and App is constructed again from the store.
Restart ==
    /\ pc = "run"
    /\ steps < MaxSteps
    /\ steps' = steps + 1
    /\ \E okW, okA, okS \in BOOLEAN : Boot("restart", okW, okA, okS)

(* ---------------- AuthScreen, lines 320-350 ---------------- *)
SelectSupervisor(s) ==
    /\ AuthView
    /\ steps < MaxSteps
    /\ s # sel
    /\ sel' = s
    /\ steps' = steps + 1
    /\ ev' = Event("select", 0, "-")
    /\ UNCHANGED << pc, localStorage, supervisor, workers, attendance, date,
                    autoAbsentList, crashed, today, inflight, files, toasts,
                    started >>

\* onLogin(SUPERVISORS.find(...)) = setSupervisor, then the effect of line 101
Login(ok) ==
    /\ AuthView
    /\ steps < MaxSteps
    /\ supervisor' = Val(FindSupervisor(sel))
    /\ localStorage' = saveLS(localStorage, "supervisor", supervisor', ok)
    /\ crashed' = ~ok
    /\ sel' = SUPERVISORS[1].id
    /\ steps' = steps + 1
    /\ ev' = Event("login", 0, "-")
    /\ UNCHANGED << pc, workers, attendance, date, autoAbsentList, today,
                    inflight, files, toasts, started >>

\* A variant of logout that also discards the table: setAttendance({})
Logout_DiscardTable(ok) ==
    /\ MainView
    /\ steps < MaxSteps
    /\ supervisor' = Null
    /\ attendance' = Val(EmptyObj)
    /\ autoAbsentList' = computeAutoAbsent(attendance'.v, workers.v)
    /\ toasts' = Toast("blank")
    /\ localStorage' = saveLS(saveLS(localStorage, "attendance", attendance', ok),
                              "supervisor", supervisor', ok)
    /\ crashed' = ~ok
    /\ sel' = SUPERVISORS[1].id
    /\ steps' = steps + 1
    /\ ev' = Event("logout", 0, "-")
    /\ UNCHANGED << pc, workers, date, today, inflight, files, started >>

\* logout, lines 128-131, then the effect of line 101
Logout(ok) ==
    /\ MainView
    /\ steps < MaxSteps
    /\ supervisor' = Null
    /\ toasts' = Toast("blank")
    /\ localStorage' = saveLS(localStorage, "supervisor", supervisor', ok)
    /\ crashed' = ~ok
    /\ sel' = SUPERVISORS[1].id
    /\ steps' = steps + 1
    /\ ev' = Event("logout", 0, "-")
    /\ UNCHANGED << pc, workers, attendance, date, autoAbsentList, today,
                    inflight, files, started >>

(* ---------------- marking, lines 108-126 ---------------- *)
\* handleMark(w, status), the re-render (the memo of line 157 is recomputed
\* because attendance is a new object) and the effect of line 100
HandleMark(i, status, ok) ==
    /\ MainView
    /\ steps < MaxSteps
    /\ i \in 1..Len(workers.v)
    /\ attendance' = Val(handleMarkUpdate(attendance.v, date, workers.v[i], status))
    /\ toasts' = Toast("success")
    /\ autoAbsentList' = computeAutoAbsent(attendance'.v, workers.v)
    /\ localStorage' = saveLS(localStorage, "attendance", attendance', ok)
    /\ crashed' = ~ok
    /\ steps' = steps + 1
    /\ ev' = [Event("mark", workers.v[i].id, status) EXCEPT
                  !.was = IF workers.v[i].id \in DOMAIN GetOr(attendance.v, date)
                             THEN attendance.v[date][workers.v[i].id] ELSE "-"]
    /\ UNCHANGED << pc, supervisor, workers, date, sel, today, inflight,
                    files, started >>

\* handleBulk(status), the re-render and the effect of line 100
HandleBulk(status, ok) ==
    /\ MainView
    /\ steps < MaxSteps
    /\ attendance' = Val(handleBulkUpdate(attendance.v, date, workers.v, status))
    /\ toasts' = Toast("blank")
    /\ autoAbsentList' = computeAutoAbsent(attendance'.v, workers.v)
    /\ localStorage' = saveLS(localStorage, "attendance", attendance', ok)
    /\ crashed' = ~ok
    /\ steps' = steps + 1
    /\ ev' = Event("bulk", 0, status)
    /\ UNCHANGED << pc, supervisor, workers, date, sel, today, inflight,
                    files, started >>

\* onChange of the date input, lines 190 and 293: setDate; the re-render
\* keeps the memo because attendance and workers are the same objects
SetDate(d) ==
    /\ MainView
    /\ steps < MaxSteps
    /\ d # date
    /\ date' = d
    /\ steps' = steps + 1
    /\ ev' = Event("setDate", 0, "-")
    /\ UNCHANGED << pc, localStorage, supervisor, workers, attendance, sel,
                    autoAbsentList, crashed, today, inflight, files, toasts,
                    started >>

(* ---------------- downloadPDF, lines 134-155 ---------------- *)
\* document.getElementById("printable-report"): the node is rendered by the
\* logged-in view only (line 260)
NodeExists == MainView

RemoveAt(q, i) == [j \in 1..(Len(q) - 1) |-> IF j < i THEN q[j] ELSE q[j + 1]]

\* The click up to the await of line 141.  The run keeps the `date` of the
\* render in which the button was clicked.
ExportStart ==
    /\ MainView
    /\ steps < MaxSteps
    /\ started < MaxExports
    /\ IF ~NodeExists
          THEN /\ toasts' = Toast("error")
               /\ inflight' = inflight
          ELSE /\ toasts' = toasts
               /\ inflight' = Append(inflight, date)
    /\ started' = started + 1
    /\ steps' = steps + 1
    /\ ev' = Event("exportStart", 0, "-")
    /\ UNCHANGED << pc, localStorage, supervisor, workers, attendance, date,
                    sel, autoAbsentList, crashed, today, files >>

\* html2canvas resolves and lines 142-150 run through
ExportSave(i) ==
    /\ pc = "run"
    /\ i \in 1..Len(inflight)
    /\ files' = Append(files, FileName(inflight[i]))
    /\ toasts' = Toast("success")
    /\ inflight' = RemoveAt(inflight, i)
    /\ ev' = Event("exportSave", 0, "-")
    /\ UNCHANGED << pc, localStorage, supervisor, workers, attendance, date,
                    sel, autoAbsentList, crashed, today, steps, started >>

\* A variant in which the failure comes after pdf.save: a file is written
\* and the error is notified
ExportThrow_AfterSave(i) ==
    /\ pc = "run"
    /\ i \in 1..Len(inflight)
    /\ files' = Append(files, FileName(inflight[i]))
    /\ toasts' = Toast("error")
    /\ inflight' = RemoveAt(inflight, i)
    /\ ev' = Event("exportThrow", 0, "-")
    /\ UNCHANGED << pc, localStorage, supervisor, workers, attendance, date,
                    sel, autoAbsentList, crashed, today, steps, started >>

\* html2canvas rejects, or one of lines 142-148 throws: the catch of line 151
ExportThrow(i) ==
    /\ pc = "run"
    /\ i \in 1..Len(inflight)
    /\ toasts' = Toast("error")
    /\ inflight' = RemoveAt(inflight, i)
    /\ ev' = Event("exportThrow", 0, "-")
    /\ UNCHANGED << pc, localStorage, supervisor, workers, attendance, date,
                    sel, autoAbsentList, crashed, today, files, steps, started >>

(* ---------------- the host's calendar ---------------- *)
\* Midnight passes.  Nothing in App observes it: no state changes, so no
\* render happens.
Tick ==
    /\ pc = "run"
    /\ today < MaxTicks
    /\ today' = today + 1
    /\ ev' = Event("tick", 0, "-")
    /\ UNCHANGED << pc, localStorage, supervisor, workers, attendance, date,
                    sel, autoAbsentList, crashed, inflight, files, toasts,
                    steps, started >>

(* ---------------- the store found at startup ---------------- *)
\* A table that was stored by an earlier session: four days ago worker 1
\* present and the last worker absent, worker 1 present three days ago and
\* absent two days ago, an empty record for yesterday.
StoredTable ==
    (0 - 4) :> (1 :> "P" @@ NumWorkers :> "A") @@ (0 - 3) :> (1 :> "P") @@
    (0 - 2) :> (1 :> "A") @@ (0 - 1) :> EmptyObj

\* A roster edited in the store: the last worker only.
StoredRoster == << [id |-> NumWorkers] >>

InitialStores ==
    { [key \in LS_KEYS |->
         CASE key = "attendance" -> a
           [] key = "workers"    -> w
           [] key = "supervisor" -> s] :
      a \in {NoItem, EmptyText, Garbage, JSON_stringify(Null),
             JSON_stringify(Val(StoredTable))},
      w \in {NoItem, Garbage, JSON_stringify(Null),
             JSON_stringify(Val(StoredRoster))},
      s \in {NoItem, Garbage, JSON_stringify(Null),
             JSON_stringify(Val(SUPERVISORS[2]))} }

Init ==
    /\ pc = "boot"
    /\ localStorage \in InitialStores
    /\ supervisor = Null
    /\ workers = Null
    /\ attendance = Null
    /\ date = 0
    /\ sel = SUPERVISORS[1].id
    /\ autoAbsentList = << >>
    /\ crashed = FALSE
    /\ today = 0
    /\ inflight = << >>
    /\ files = << >>
    /\ toasts = [success |-> 0, error |-> 0, blank |-> 0]
    /\ ev = Event("init", 0, "-")
    /\ steps = 0
    /\ started = 0

Next ==
    \/ Startup
    \/ Restart
    \/ \E s \in SupervisorIds : SelectSupervisor(s)
    \/ \E ok \in BOOLEAN : Login(ok)
    \/ \E ok \in BOOLEAN : Logout(ok)
    \/ \E i \in 1..NumWorkers, status \in Status, ok \in BOOLEAN : HandleMark(i, status, ok)
    \/ \E status \in Status, ok \in BOOLEAN : HandleBulk(status, ok)
    \/ \E d \in Days : SetDate(d)
    \/ ExportStart
    \/ \E i \in 1..MaxExports : ExportSave(i)
    \/ \E i \in 1..MaxExports : ExportThrow(i)
    \/ Tick

Spec == Init /\ [][Next]_vars

(* ---------------- the absence rule on arbitrary inputs ---------------- *)
\* Rosters with unique ids, in every order
Rosters ==
    { r \in UNION { [1..n -> [id : WorkerIds]] : n \in 0..NumWorkers } :
        \A i, j \in 1..Len(r) : r[i].id = r[j].id => i = j }

DayMaps == UNION { [S -> Status] : S \in SUBSET WorkerIds }

WindowDays == { 0 - 3, 0 - 2, 0 - 1 }

\* Every table over the three days before day 0, with or without a record
\* for day 0 itself on which everybody is present
Tables ==
    LET window == UNION { [D -> DayMaps] : D \in SUBSET WindowDays }
    IN  window \cup { Put(t, 0, [w \in WorkerIds |-> "P"]) : t \in window }

EvalInit ==
    /\ pc = "eval"
    /\ workers \in { Val(r) : r \in Rosters }
    /\ attendance \in { Val(t) : t \in Tables }
    /\ localStorage = [key \in LS_KEYS |-> NoItem]
    /\ supervisor = Null
    /\ date = 0
    /\ sel = SUPERVISORS[1].id
    /\ autoAbsentList = << >>
    /\ crashed = FALSE
    /\ today = 0
    /\ inflight = << >>
    /\ files = << >>
    /\ toasts = [success |-> 0, error |-> 0, blank |-> 0]
    /\ ev = Event("init", 0, "-")
    /\ steps = 0
    /\ started = 0

Evaluate ==
    /\ pc = "eval"
    /\ pc' = "evaluated"
    /\ autoAbsentList' = computeAutoAbsent(attendance.v, workers.v)
    /\ ev' = Event("evaluate", 0, "-")
    /\ UNCHANGED << localStorage, supervisor, workers, attendance, date, sel,
                    crashed, today, inflight, files, toasts, steps, started >>

EvalNext == Evaluate

SpecEval == EvalInit /\ [][EvalNext]_vars

(* ======================= properties ======================= *)

\* The rule as the specification words it: on each of today-1, today-2 and
\* today-3 the worker's entry is 'A' or missing
AbsentOrMissing(att, w, d) ==
    \/ d \notin DOMAIN att
    \/ w.id \notin DOMAIN att[d]
    \/ att[d][w.id] = "A"

FlagRule(att, w) ==
    /\ AbsentOrMissing(att, w, today - 1)
    /\ AbsentOrMissing(att, w, today - 2)
    /\ AbsentOrMissing(att, w, today - 3)

Flagged(att, ws) ==
    LET Test(w) == FlagRule(att, w)
    IN  SelectSeq(ws, Test)

\* C1: for every roster with unique ids and every table of 'P'/'A' entries,
\* computeAutoAbsent returns the roster filtered, in roster order, by "the
\* entry is 'A' or missing on each of today-1, today-2, today-3"; hence no
\* duplicates, an empty table flags everybody and an empty roster nobody.
C1_FilterOfRoster ==
    pc = "evaluated" =>
        /\ autoAbsentList = Flagged(attendance.v, workers.v)
        /\ \A i, j \in 1..Len(autoAbsentList) :
               autoAbsentList[i] = autoAbsentList[j] => i = j
        /\ attendance.v = EmptyObj => autoAbsentList = workers.v
        /\ workers.v = << >> => autoAbsentList = << >>

\* A roster of two of which the first is excluded by a single 'P' and the
\* second is flagged through a missing day and a missing entry
C1_Witness ==
    /\ pc = "evaluated"
    /\ Len(workers.v) = 2
    /\ autoAbsentList = << workers.v[2] >>
    /\ (0 - 3) \notin DOMAIN attendance.v
    /\ (0 - 1) \in DOMAIN attendance.v
    /\ (0 - 2) \in DOMAIN attendance.v
    /\ workers.v[1].id \in DOMAIN attendance.v[0 - 2]
    /\ attendance.v[0 - 2][workers.v[1].id] = "P"
    /\ workers.v[2].id \in DOMAIN attendance.v[0 - 1]
    /\ workers.v[2].id \notin DOMAIN attendance.v[0 - 2]

\* The entries of a table, as (date, worker id) pairs
Entries(att) == { p \in (DOMAIN att) \X WorkerIds : p[2] \in DOMAIN att[p[1]] }

EntriesOf(a) == IF a = Null THEN {} ELSE Entries(a.v)

\* Every date other than d has in new the record it has in old
OtherDatesSame(old, new, d) ==
    /\ (DOMAIN new) \ {d} = (DOMAIN old) \ {d}
    /\ \A e \in (DOMAIN old) \ {d} : new[e] = old[e]

\* C2: markOne for worker w with status s on the selected date d yields the
\* previous table except that entry (d, w) is s: the other workers' entries
\* on d and every other date are unchanged, and marking the same worker and
\* date again leaves the status of the later call.
C2_MarkOneSetsOneEntry ==
    [][ev'.op = "mark" =>
         LET old == attendance.v
             new == attendance'.v
             d   == date
         IN  /\ d \in DOMAIN new
             /\ ev'.w \in DOMAIN new[d]
             /\ new[d][ev'.w] = ev'.s
             /\ (DOMAIN new[d]) \ {ev'.w} = (DOMAIN GetOr(old, d)) \ {ev'.w}
             /\ \A x \in (DOMAIN new[d]) \ {ev'.w} : new[d][x] = old[d][x]
             /\ OtherDatesSame(old, new, d)
             /\ workers' = workers]_vars

\* A worker marked present on day 0 has been marked absent on day 0, and the
\* entry is 'A'; the other worker's entry on day 0, made before, is in place
C2_Witness ==
    /\ ev.op = "mark"
    /\ ev.was = "P"
    /\ ev.s = "A"
    /\ date = 0
    /\ date \in DOMAIN attendance.v
    /\ attendance.v[date][ev.w] = "A"
    /\ \E x \in DOMAIN attendance.v[date] : x # ev.w

\* C3: markAll with status s on the selected date d yields a table in which
\* every roster worker's entry on d is s, whatever d held before, and in
\* which every other date is as before.
C3_MarkAllSetsTheDate ==
    [][ev'.op = "bulk" =>
         LET old == attendance.v
             new == attendance'.v
             d   == date
         IN  /\ d \in DOMAIN new
             /\ \A i \in 1..Len(workers.v) :
                    /\ workers.v[i].id \in DOMAIN new[d]
                    /\ new[d][workers.v[i].id] = ev'.s
             /\ OtherDatesSame(old, new, d)
             /\ workers' = workers]_vars

\* markAll('P') on day -2, where worker 1 was absent and worker 2 unmarked:
\* both are present there now, and day -3 still has its earlier record
C3_Witness ==
    /\ ev.op = "bulk"
    /\ ev.s = "P"
    /\ date = 0 - 2
    /\ Len(workers.v) = NumWorkers
    /\ \A w \in WorkerIds : attendance.v[date][w] = "P"
    /\ (0 - 3) \in DOMAIN attendance.v
    /\ attendance.v[0 - 3] = (1 :> "P")

\* The in-memory value behind a key
Mem(key) ==
    CASE key = "attendance" -> attendance
      [] key = "workers"    -> workers
      [] key = "supervisor" -> supervisor

\* C4: after startup and after every completed user action, provided the
\* storage writes succeeded, each of the three stored records is the
\* serialization of the in-memory value; so a restart restores the same
\* roster, table and supervisor (none after a logout).
C4_StoreMirrorsMemory ==
    /\ [](pc = "run" /\ ~crashed =>
            \A key \in LS_KEYS : localStorage[key] = JSON_stringify(Mem(key)))
    /\ [][ev'.op = "restart" /\ ~crashed =>
            /\ workers' = workers
            /\ attendance' = attendance
            /\ supervisor' = supervisor]_vars

\* A restart after a mark and a logout: the marked entry is back in memory
\* and no supervisor is set
C4_Witness ==
    /\ ev.op = "restart"
    /\ ~crashed
    /\ supervisor = Null
    /\ toasts.blank = 1
    /\ toasts.success = 1
    /\ 0 \in DOMAIN attendance.v
    /\ localStorage["attendance"] = JSON_stringify(attendance)
    /\ localStorage["supervisor"] = JSON_stringify(Null)

\* A write of the step has failed: the store does not hold the text of the
\* in-memory value although the step rendered and ran its effects
WriteFailed ==
    /\ ev'.op \in {"startup", "restart", "login", "logout", "mark", "bulk"}
    /\ ~RenderThrows(attendance', workers')
    /\ \E key \in LS_KEYS : localStorage'[key] # JSON_stringify(Mem(key)')

\* C5: a failed write to the store, after a mutation or at startup, is
\* swallowed: the application does not enter an error state and the user
\* actions stay enabled.
C5_WriteFailureSwallowed ==
    [][WriteFailed => ~crashed']_vars

\* The text of a record cannot be read as the structure the key expects:
\* there is none, it is not JSON, or it is the JSON of something that is
\* neither a roster nor a table
NotExpected(key, raw) ==
    \/ raw.k # "json"
    \/ key \in {"attendance", "workers"} /\ raw.v = Null

Default(key) ==
    CASE key = "attendance" -> Val(EmptyObj)
      [] key = "workers"    -> Val(DEFAULT_WORKERS)
      [] key = "supervisor" -> Null

\* C6: at startup, for each stored record independently, an absent or
\* corrupted record gives the record's default in memory.
C6_CorruptedRecordGivesDefault ==
    [][ev'.op \in {"startup", "restart"} =>
         \A key \in LS_KEYS :
             NotExpected(key, localStorage[key]) => Mem(key)' = Default(key)]_vars

\* C7: the table changes only through markOne and markAll, and those only add
\* or overwrite entries: login, logout, setSelectedDate and the export leave
\* table and roster unchanged, and within a session no entry that exists is
\* ever removed.
C7_OnlyMarksChangeTheTable ==
    [][ev'.op \notin {"startup", "restart"} =>
         /\ workers' = workers
         /\ ev'.op \notin {"mark", "bulk"} => attendance' = attendance
         /\ EntriesOf(attendance) \subseteq EntriesOf(attendance')]_vars

\* A logout after marks on two days: the entries of both days are in place
C7_Witness ==
    /\ ev.op = "logout"
    /\ supervisor = Null
    /\ \E d, e \in DOMAIN attendance.v :
          /\ d # e
          /\ attendance.v[d] # EmptyObj
          /\ attendance.v[e] # EmptyObj
          /\ toasts.success >= 1

\* The session state an export must not touch
SessionState == << supervisor, workers, attendance, date >>

\* C8: every export run ends in exactly one of two outcomes: the file
\* attendance_<date>.pdf, <date> being the date selected when the run was
\* started, is saved and one success notification is issued; or one error
\* notification is issued and no file is saved.  Neither the start nor the
\* end of a run changes supervisor, roster, table or selected date, also with
\* two runs in flight, and no run ends twice.
C8_ExportOneOutcome ==
    /\ [][/\ ev'.op = "exportStart" =>
               /\ SessionState' = SessionState
               /\ files' = files
               /\ \/ inflight' = Append(inflight, date) /\ toasts' = toasts
                  \/ inflight' = inflight /\ toasts' = [toasts EXCEPT !.error = @ + 1]
          /\ ev'.op = "exportSave" =>
               /\ SessionState' = SessionState
               /\ \E i \in 1..Len(inflight) :
                     /\ files' = Append(files, FileName(inflight[i]))
                     /\ inflight' = RemoveAt(inflight, i)
               /\ toasts' = [toasts EXCEPT !.success = @ + 1]
          /\ ev'.op = "exportThrow" =>
               /\ SessionState' = SessionState
               /\ files' = files
               /\ \E i \in 1..Len(inflight) : inflight' = RemoveAt(inflight, i)
               /\ toasts' = [toasts EXCEPT !.error = @ + 1]]_vars
    /\ [](Len(files) + toasts.error + Len(inflight) <= started)

\* Two runs were started on different selected dates; one has failed and
\* the other has saved its file under the date it was started on, which
\* is no longer the selected one
C8_Witness ==
    /\ started = 2
    /\ Len(files) = 1
    /\ toasts.error = 1
    /\ inflight = << >>
    /\ ev.op = "exportSave"
    /\ files[1].date # date
    /\ MainView

\* C9: while no supervisor is set only login is enabled, and login sets the
\* supervisor to the selected member of SUPERVISORS; markOne, markAll,
\* setSelectedDate, export and logout are enabled only while a supervisor is
\* set, and logout sets the supervisor to none; so no entry of the table
\* changes between a logout and the next login.
C9_SessionMachine ==
    [][/\ ev'.op \in {"mark", "bulk", "setDate", "exportStart", "logout"} =>
            Truthy(supervisor)
       /\ ev'.op \in {"login", "select"} => ~Truthy(supervisor)
       /\ ev'.op = "login" =>
            /\ \E i \in 1..Len(SUPERVISORS) :
                  SUPERVISORS[i].id = sel /\ supervisor' = Val(SUPERVISORS[i])
       /\ ev'.op = "logout" => supervisor' = Null
       /\ (pc = "run" /\ ~Truthy(supervisor) /\ ev'.op # "restart") =>
            attendance' = attendance]_vars

\* After a logout the second supervisor has been selected and logged in
C9_Witness ==
    /\ ev.op = "login"
    /\ toasts.blank = 1
    /\ supervisor = Val(SUPERVISORS[2])
    /\ localStorage["supervisor"] = JSON_stringify(Val(SUPERVISORS[2]))
    /\ MainView

\* C10: in every state of the logged-in view the flagged list on display is
\* the absence rule's result for the current table and roster relative to
\* the current calendar date.
C10_DisplayedListIsCurrent ==
    MainView => autoAbsentList = computeAutoAbsent(attendance.v, workers.v)

(* ---------------- the summary, lines 103-106 and 244-248 ---------------- *)
\* const todayRecords = attendance[date] || {}
todayRecords == GetOr(attendance.v, date)

\* Object.values(rec).filter((s) => s === status).length
CountValues(rec, status) == Cardinality({ k \in DOMAIN rec : rec[k] = status })

presentCount == CountValues(todayRecords, "P")     \* line 105
absentCount  == CountValues(todayRecords, "A")     \* line 106
totalCount   == Len(workers.v)                     \* line 245

\* The roster workers whose entry on the selected date is the status
RosterWith(status) ==
    { i \in 1..Len(workers.v) :
        /\ workers.v[i].id \in DOMAIN todayRecords
        /\ todayRecords[workers.v[i].id] = status }

\* C11: in every state of the logged-in view the summary's Present and
\* Absent counts for the selected date are the numbers of roster workers
\* whose entry on that date is 'P' and 'A', so Present + Absent never
\* exceeds the Total on display.
C11_SummaryCountsRoster ==
    MainView =>
        /\ presentCount = Cardinality(RosterWith("P"))
        /\ absentCount = Cardinality(RosterWith("A"))
        /\ presentCount + absentCount <= totalCount

====
